---- MODULE Spec2Model ----
(***************************************************************************)
(* Model of gaupol's automatic text correction (TextAgent: capitalize,     *)
(* correct_common_errors, remove_hearing_impaired, break_lines) together   *)
(* with the helper methods of UtilityAgent and the revertable-action       *)
(* history the four batch operations commit to.                            *)
(*                                                                         *)
(* A text is a sequence of one-character strings.  Positions are 0-based   *)
(* as in the Python source; the i-th character of text is text[i + 1].     *)
(***************************************************************************)
EXTENDS Integers, Sequences, FiniteSets, TLC

(***************************************************************************)
(* Characters and character classes (re.UNICODE classes restricted to the  *)
(* alphabet of the model).                                                 *)
(***************************************************************************)
Lower == {"a", "b"}

Upper == {"A", "B"}

\* \w : word characters
IsWord(c) == c \in Lower \cup Upper

\* \s : whitespace characters
IsSpace(c) == c \in {" ", "\n"}

\* unicode.capitalize() of a one-character string
CapitalizeChar(c) ==
    CASE c = "a" -> "A"
      [] c = "b" -> "B"
      [] OTHER   -> c

\* text[a:z] of Python, for 0 <= a, z; empty when z <= a
Slice(text, a, z) ==
    LET hi == IF z > Len(text) THEN Len(text) ELSE z
    IN  IF a >= hi THEN << >> ELSE SubSeq(text, a + 1, hi)

\* text[a:]
SliceFrom(text, a) == Slice(text, a, Len(text))

Ellipsis == <<".", ".", ".">>

(***************************************************************************)
(* _re_capitalizable = re.compile(r"^\W*(?<!\.\.\.)\w", re.UNICODE),       *)
(* searched in string s.  "^" anchors the match at 0; \W* must stop right  *)
(* before the first word character (a shorter \W* leaves a non-word        *)
(* character where \w is required), and the negative lookbehind looks at   *)
(* the three characters of s before that word character.  The result is    *)
(* -1 for no match (None), else match.start(), which is always 0.          *)
(***************************************************************************)
FirstWord(s) ==
    IF \E k \in 1..Len(s) : IsWord(s[k])
    THEN (CHOOSE k \in 1..Len(s) :
             IsWord(s[k]) /\ \A j \in 1..(k - 1) : ~IsWord(s[j])) - 1
    ELSE -1

re_capitalizable_search(s) ==
    LET k == FirstWord(s)
    IN  IF k < 0 THEN -1
        ELSE IF k >= 3 /\ Slice(s, k - 3, k) = Ellipsis THEN -1
        ELSE 0

\* TextAgent._capitalize_position applied to parser.text: the new text and
\* the returned boolean (match is not None).  The search runs on the slice
\* parser.text[pos:], and the character capitalized is the one at
\* pos + match.start().
capitalize_position(text, pos) ==
    LET start == re_capitalizable_search(SliceFrom(text, pos))
        a == pos + start
    IN  IF start < 0
        THEN [text |-> text, found |-> FALSE]
        ELSE [text |-> Slice(text, 0, a)
                        \o <<CapitalizeChar(text[a + 1])>>
                        \o SliceFrom(text, a + 1),
              found |-> TRUE]

(***************************************************************************)
(* Patterns.  A pattern is a record                                        *)
(*   [Pattern, Replacement, Capitalize, Repeat, enabled]                   *)
(* whose regular expression source is a sequence of atoms.  Each atom is a *)
(* literal character, except "(" which opens a group that is never closed: *)
(* a source holding it does not compile (re.error).                        *)
(***************************************************************************)
Compiles(source) == \A k \in 1..Len(source) : source[k] # "("

\* The literal regex `source` matches text at 0-based position a.
MatchesAt(text, source, a) ==
    /\ a + Len(source) <= Len(text)
    /\ \A k \in 1..Len(source) : text[a + k] = source[k]

\* Parser.next(): the span (a, z) of the next match at or after the cursor,
\* or found = FALSE for StopIteration.  The cursor moves to z.
parser_next(text, source, pos) ==
    IF \E a \in pos..Len(text) : MatchesAt(text, source, a)
    THEN LET first == CHOOSE a \in pos..Len(text) :
                        /\ MatchesAt(text, source, a)
                        /\ \A b \in pos..(a - 1) : ~MatchesAt(text, source, b)
         IN  [found |-> TRUE, a |-> first, z |-> first + Len(source)]
    ELSE [found |-> FALSE, a |-> -1, z |-> -1]

\* Parser.replace_all(): every non-overlapping match from the left replaced
\* by the replacement; the new text and the count of substitutions.
RECURSIVE replace_from(_, _, _, _)
replace_from(text, source, replacement, pos) ==
    LET m == parser_next(text, source, pos)
    IN  IF ~m.found
        THEN [text |-> text, count |-> 0]
        ELSE LET new  == Slice(text, 0, m.a) \o replacement \o SliceFrom(text, m.z)
                 rest == replace_from(new, source, replacement,
                                      m.a + Len(replacement))
             IN  [text |-> rest.text, count |-> rest.count + 1]

replace_all(text, source, replacement) ==
    replace_from(text, source, replacement, 0)

\* TextAgent._capitalize_text, with the parser's cursor at pos: the text
\* after every match was handled and the cap_next to hand on.
RECURSIVE capitalize_text(_, _, _, _)
capitalize_text(text, pos, pattern, cap_next) ==
    LET m == parser_next(text, pattern.Pattern, pos)
    IN  IF ~m.found
        THEN [text |-> text, cap_next |-> cap_next]
        ELSE IF pattern.Capitalize = "Start"
        THEN capitalize_text(capitalize_position(text, m.a).text, m.z,
                             pattern, cap_next)
        ELSE IF pattern.Capitalize = "After"
        THEN LET r == capitalize_position(text, m.z)
             IN  capitalize_text(r.text, m.z, pattern, ~r.found)
        ELSE capitalize_text(text, m.z, pattern, cap_next)

\* TextAgent._get_subtitutions: the enabled patterns, in table order
get_subtitutions(patterns) == SelectSeq(patterns, LAMBDA x : x.enabled)

(***************************************************************************)
(* TextAgent._remove_leftover_spaces.  The seven substitutions run with    *)
(* the parser's default flags (DOTALL and MULTILINE): "^" matches at 0 and *)
(* after each newline, "$" at the end and before each newline.  For each   *)
(* substitution k, cleanup_match gives the end z of the match that starts  *)
(* at position p (-1: no match there), cleanup_replacement what replaces   *)
(* text[p:z].                                                              *)
(***************************************************************************)
LineStart(text, p) == p = 0 \/ text[p] = "\n"

LineEnd(text, q) == q = Len(text) \/ text[q + 1] = "\n"

\* the largest q in S, or -1 for the empty set
MaxOf(S) == IF S = {} THEN -1 ELSE CHOOSE q \in S : \A r \in S : r <= q

MinOf(S) == IF S = {} THEN -1 ELSE CHOOSE q \in S : \A r \in S : q <= r

IsNonWord(c) == ~IsWord(c)

IsBlank(c) == c = " "

\* the character classes of the cleanup patterns
InClass(class, c) ==
    CASE class = "\\s" -> IsSpace(c)
      [] class = " "   -> IsBlank(c)
      [] class = "\\W" -> IsNonWord(c)

\* the end of the longest run of characters of a class from p
RunEnd(text, p, class) ==
    MinOf({q \in p..Len(text) : q = Len(text) \/ ~InClass(class, text[q + 1])})

cleanup_match(k, text, p) ==
    LET n == Len(text)
    IN  CASE k = 1 ->  \* (^\s+|\s+$)
               IF p >= n \/ ~IsSpace(text[p + 1]) THEN -1
               ELSE IF LineStart(text, p) THEN RunEnd(text, p, "\\s")
               ELSE MaxOf({q \in (p + 1)..RunEnd(text, p, "\\s") :
                              LineEnd(text, q)})
          [] k = 2 ->  \* " {2,}"
               IF p + 1 < n /\ text[p + 1] = " " /\ text[p + 2] = " "
               THEN RunEnd(text, p, " ") ELSE -1
          [] k = 3 ->  \* ^\W*$
               IF ~LineStart(text, p) THEN -1
               ELSE MaxOf({q \in p..RunEnd(text, p, "\\W") :
                              LineEnd(text, q)})
          [] k = 4 ->  \* (^\n|\n$)
               IF p < n /\ text[p + 1] = "\n"
                        /\ (LineStart(text, p) \/ LineEnd(text, p + 1))
               THEN p + 1 ELSE -1
          [] k = 5 ->  \* ^-(\S)
               IF LineStart(text, p) /\ p + 1 < n /\ text[p + 1] = "-"
                                     /\ ~IsSpace(text[p + 2])
               THEN p + 2 ELSE -1
          [] k = 6 ->  \* ^- (.*?^[^-])
               IF LineStart(text, p) /\ p + 1 < n /\ text[p + 1] = "-"
                                     /\ text[p + 2] = " "
               THEN LET q == MinOf({q \in (p + 2)..(n - 1) :
                                       LineStart(text, q) /\ text[q + 1] # "-"})
                    IN  IF q < 0 THEN -1 ELSE q + 1
               ELSE -1
          [] k = 7 ->  \* \A- ([^\n]*)\Z
               IF p = 0 /\ n >= 2 /\ text[1] = "-" /\ text[2] = " "
                        /\ \A j \in 3..n : text[j] # "\n"
               THEN n ELSE -1

cleanup_replacement(k, text, p, z) ==
    CASE k = 2 -> <<" ">>
      [] k = 5 -> <<"-", " ", text[p + 2]>>
      [] k = 6 -> Slice(text, p + 2, z)
      [] k = 7 -> Slice(text, p + 2, z)
      [] OTHER -> << >>

\* substitute(pattern, replacement): parser.replace_all() with the k-th
\* cleanup pattern, scanning from position p; done holds the output so far.
RECURSIVE substitute_from(_, _, _, _)
substitute_from(k, text, p, done) ==
    IF p > Len(text) THEN done
    ELSE LET z == cleanup_match(k, text, p)
         IN  IF z > p
             THEN substitute_from(k, text, z,
                                  done \o cleanup_replacement(k, text, p, z))
             ELSE substitute_from(k, text, p + 1, done \o Slice(text, p, p + 1))

substitute(k, text) == substitute_from(k, text, 0, << >>)

\* the cleanup of one text
remove_leftover_spaces_1(text) ==
    substitute(7, substitute(6, substitute(5, substitute(4,
        substitute(3, substitute(2, substitute(1, text)))))))

\* TextAgent._remove_leftover_spaces(texts, parser)
remove_leftover_spaces(texts) ==
    [i \in 1..Len(texts) |-> remove_leftover_spaces_1(texts[i])]

(***************************************************************************)
(* The project: the subtitles, each with a main and a translation text,    *)
(* the two files (None or a file of some format) and the stacks of         *)
(* revertable actions.  Indexes are 0-based as in the source: subtitle     *)
(* index is subtitles[index + 1].                                          *)
(***************************************************************************)
VARIABLES
    subtitles,   \* sequence of [main_text, tran_text]
    main_file,   \* "None" or the format of the main file
    tran_file,   \* "None" or the format of the translation file
    undoables,   \* stack of actions, the most recent last
    redoables,   \* stack of actions, the most recent last
    args,        \* the arguments the host passes to the batch operations
    last         \* the last operation, its outcome and the state before it

vars == <<subtitles, main_file, tran_file, undoables, redoables, args, last>>

MAIN == "MAIN"

TRAN == "TRAN"

\* Subtitle.get_text(doc)
get_text(subtitle, doc) ==
    IF doc = MAIN THEN subtitle.main_text ELSE subtitle.tran_text

\* Subtitle.set_text(doc, text)
set_text(subtitle, doc, text) ==
    IF doc = MAIN THEN [subtitle EXCEPT !.main_text = text]
                  ELSE [subtitle EXCEPT !.tran_text = text]

\* UtilityAgent.get_format: the format, "None", or "ValueError"
get_format(mfile, tfile, doc) ==
    IF doc = MAIN THEN mfile
    ELSE IF doc = TRAN THEN (IF tfile # "None" THEN tfile ELSE mfile)
    ELSE "ValueError"

\* UtilityAgent.get_markup_tag_regex: "None", or the tag regex of the
\* format's markup, or "ValueError" passed on from get_format
get_markup_tag_regex(mfile, tfile, doc) ==
    LET format == get_format(mfile, tfile, doc)
    IN  IF format = "None" THEN "None"
        ELSE IF format = "ValueError" THEN "ValueError"
        ELSE "<.*?>"

\* re_tag.sub("", text) for the tag regex <.*?> : every span from a "<" to
\* the next ">" is removed
RECURSIVE tag_sub(_)
tag_sub(text) ==
    IF text = << >> THEN << >>
    ELSE IF text[1] = "<" /\ \E k \in 2..Len(text) : text[k] = ">"
    THEN tag_sub(SliceFrom(text, MinOf({k \in 2..Len(text) : text[k] = ">"})))
    ELSE <<text[1]>> \o tag_sub(Tail(text))

\* text.split("\n")
RECURSIVE split_lines(_)
split_lines(text) ==
    IF \E k \in 1..Len(text) : text[k] = "\n"
    THEN LET k == MinOf({j \in 1..Len(text) : text[j] = "\n"})
         IN  <<Slice(text, 0, k - 1)>> \o split_lines(SliceFrom(text, k))
    ELSE <<text>>

\* max(length_func(x) for x in lines), length_func being len
max_length_of(lines) == MaxOf({Len(lines[k]) : k \in 1..Len(lines)})

(***************************************************************************)
(* Revertable actions.  An action carries a description and the steps that *)
(* revert it, in the order the operations they revert were done; a grouped *)
(* action has several.  A step is [method, indexes, doc, texts, subs].     *)
(***************************************************************************)
DO == "DO"

UNDO == "UNDO"

REDO == "REDO"

Project(subs, undos, redos) ==
    [subtitles |-> subs, undoables |-> undos, redoables |-> redos]


\* register_action that keeps the redo stack when a Do action is pushed
register_action_keeping_redo(proj, register, step) ==
    LET action == [description |-> "", steps |-> <<step>>]
    IN  IF register = UNDO
        THEN [proj EXCEPT !.redoables = Append(@, action)]
        ELSE [proj EXCEPT !.undoables = Append(@, action)]

\* register_action: a Do action is pushed onto the undo stack and clears
\* the redo stack; an action done by undo goes onto the redo stack, one
\* done by redo onto the undo stack.
register_action(proj, register, step) ==
    LET action == [description |-> "", steps |-> <<step>>]
    IN  IF register = DO
        THEN [proj EXCEPT !.undoables = Append(@, action), !.redoables = << >>]
        ELSE IF register = UNDO
        THEN [proj EXCEPT !.redoables = Append(@, action)]
        ELSE [proj EXCEPT !.undoables = Append(@, action)]

\* the stack a register's actions are pushed onto
StackOf(register) == IF register = UNDO THEN "redoables" ELSE "undoables"

\* set_action_description(register, description): label the last action
set_action_description(proj, register, description) ==
    LET stack == proj[StackOf(register)]
    IN  [proj EXCEPT ![StackOf(register)] =
            [stack EXCEPT ![Len(stack)].description = description]]

\* group_actions(register, count, description): the last count actions of
\* the stack become one action
RECURSIVE concat_steps(_)
concat_steps(actions) ==
    IF actions = << >> THEN << >>
    ELSE actions[1].steps \o concat_steps(Tail(actions))

group_actions(proj, register, count, description) ==
    LET stack == proj[StackOf(register)]
        n     == Len(stack)
        group == [description |-> description,
                  steps |-> concat_steps(SubSeq(stack, n - count + 1, n))]
    IN  [proj EXCEPT ![StackOf(register)] =
            Append(SubSeq(stack, 1, n - count), group)]

\* set the texts of the subtitles at indexes
RECURSIVE set_texts(_, _, _, _)
set_texts(subs, indexes, doc, texts) ==
    IF indexes = << >> THEN subs
    ELSE set_texts([subs EXCEPT ![indexes[1] + 1] = set_text(@, doc, texts[1])],
                   Tail(indexes), doc, Tail(texts))

\* replace_texts(indexes, doc, texts, register)
replace_texts(proj, indexes, doc, texts, register) ==
    LET orig_texts == [k \in 1..Len(indexes) |->
                          get_text(proj.subtitles[indexes[k] + 1], doc)]
        done == [proj EXCEPT !.subtitles = set_texts(@, indexes, doc, texts)]
    IN  register_action(done, register,
            [method |-> "replace_texts", indexes |-> indexes, doc |-> doc,
             texts |-> orig_texts, subs |-> << >>])

\* the indexes of a sequence as a set
Range(seq) == {seq[k] : k \in 1..Len(seq)}

\* sorted(indexes)
RECURSIVE sorted(_)
sorted(S) ==
    IF S = {} THEN << >>
    ELSE LET m == MinOf(S) IN <<m>> \o sorted(S \ {m})

\* remove_subtitles(indexes, register)
remove_subtitles(proj, indexes, register) ==
    LET gone == sorted(Range(indexes))
        kept == SelectSeq([k \in 1..Len(proj.subtitles) |-> k - 1],
                          LAMBDA i : i \notin Range(indexes))
        done == [proj EXCEPT !.subtitles =
                    [k \in 1..Len(kept) |-> proj.subtitles[kept[k] + 1]]]
    IN  register_action(done, register,
            [method |-> "insert_subtitles", indexes |-> gone, doc |-> "",
             texts |-> << >>,
             subs |-> [k \in 1..Len(gone) |-> proj.subtitles[gone[k] + 1]]])

\* insert_subtitles(indexes, subtitles, register): in ascending order, each
\* subtitle is inserted at its index
RECURSIVE insert_all(_, _, _)
insert_all(subs, indexes, new) ==
    IF indexes = << >> THEN subs
    ELSE insert_all(SubSeq(subs, 1, indexes[1]) \o <<new[1]>>
                        \o SubSeq(subs, indexes[1] + 1, Len(subs)),
                    Tail(indexes), Tail(new))

insert_subtitles(proj, indexes, new, register) ==
    LET done == [proj EXCEPT !.subtitles = insert_all(@, indexes, new)]
    IN  register_action(done, register,
            [method |-> "remove_subtitles", indexes |-> indexes, doc |-> "",
             texts |-> << >>, subs |-> << >>])

\* RevertableAction.revert(): run the step with the opposite register
revert_step(proj, step, register) ==
    CASE step.method = "replace_texts" ->
             replace_texts(proj, step.indexes, step.doc, step.texts, register)
      [] step.method = "insert_subtitles" ->
             insert_subtitles(proj, step.indexes, step.subs, register)
      [] step.method = "remove_subtitles" ->
             remove_subtitles(proj, step.indexes, register)

RECURSIVE revert_steps(_, _, _)
revert_steps(proj, steps, register) ==
    IF steps = << >> THEN proj
    ELSE revert_steps(revert_step(proj, steps[Len(steps)], register),
                      SubSeq(steps, 1, Len(steps) - 1), register)

\* pop the last action of the stack, revert its steps from the most recent
\* one, and group what that pushed onto the other stack as one action
revert_multiple(proj, register) ==
    LET from   == IF register = UNDO THEN "undoables" ELSE "redoables"
        stack  == proj[from]
        action == stack[Len(stack)]
        popped == [proj EXCEPT ![from] = SubSeq(stack, 1, Len(stack) - 1)]
        done   == revert_steps(popped, action.steps, register)
    IN  group_actions(done, register, Len(action.steps), action.description)

\* undo(): NothingToUndo on an empty undo stack
undo(proj) ==
    IF proj.undoables = << >>
    THEN [outcome |-> "NothingToUndo", project |-> proj]
    ELSE [outcome |-> "Done", project |-> revert_multiple(proj, UNDO)]

\* redo(): NothingToRedo on an empty redo stack
redo(proj) ==
    IF proj.redoables = << >>
    THEN [outcome |-> "NothingToRedo", project |-> proj]
    ELSE [outcome |-> "Done", project |-> revert_multiple(proj, REDO)]

(***************************************************************************)
(* The batch operations of TextAgent.  Each is an operator from the        *)
(* project and the call's arguments to a result                            *)
(*   [outcome, project, new_indexes, new_texts, remove_indexes]            *)
(* where outcome is "Done", "NoChange" (the AssertionError swallowed by    *)
(* asserted_return), "InvalidIndex" (the AssertionError of the operation's *)
(* _require contract), "InvalidDocument" (ValueError) or "BadPattern"      *)
(* (re.error), and project is the project the call leaves behind.          *)
(***************************************************************************)
Result(outcome, proj, new_indexes, new_texts, remove_indexes) ==
    [outcome |-> outcome, project |-> proj, new_indexes |-> new_indexes,
     new_texts |-> new_texts, remove_indexes |-> remove_indexes]

\* an exception leaves the method where it is raised
Raised(outcome, proj) == Result(outcome, proj, << >>, << >>, << >>)

\* <operation>_require: every index is one of the collection
require(proj, indexes) ==
    \A index \in Range(indexes) : 0 <= index /\ index < Len(proj.subtitles)

\* indexes or range(len(self.subtitles))
indexes_or_all(proj, indexes) ==
    IF indexes # << >> THEN indexes
    ELSE [k \in 1..Len(proj.subtitles) |-> k - 1]

\* re.compile fails for one of the enabled patterns
bad_pattern(patterns) ==
    \E k \in 1..Len(patterns) :
        patterns[k].enabled /\ ~Compiles(patterns[k].Pattern)


\* changed without the comparison: every processed entry counts as changed
changed_always(proj, doc, entries) == entries

\* the entries of a loop's (index, text) list whose text differs from the
\* stored one: new_indexes and new_texts
changed(proj, doc, entries) ==
    SelectSeq(entries, LAMBDA e :
        e.text # get_text(proj.subtitles[e.index + 1], doc))

indexes_of(entries) == [k \in 1..Len(entries) |-> entries[k].index]

texts_of(entries) == [k \in 1..Len(entries) |-> entries[k].text]

\* gaupol.util.get_ranges: the maximal runs of consecutive integers
RECURSIVE get_ranges_from(_, _)
get_ranges_from(lst, ranges) ==
    IF lst = << >> THEN ranges
    ELSE LET n    == Len(ranges)
             open == ranges[n]
         IN  IF lst[1] = open[Len(open)] + 1
             THEN get_ranges_from(Tail(lst),
                      [ranges EXCEPT ![n] = Append(open, lst[1])])
             ELSE get_ranges_from(Tail(lst), Append(ranges, <<lst[1]>>))

get_ranges(lst) ==
    IF lst = << >> THEN << >>
    ELSE LET srt == sorted(Range(lst))
         IN  get_ranges_from(Tail(srt), << <<srt[1]>> >>)

\* capitalize, lines 181-187: every enabled pattern in turn on one text
RECURSIVE capitalize_patterns(_, _, _)
capitalize_patterns(text, patterns, cap_next) ==
    IF patterns = << >> THEN [text |-> text, cap_next |-> cap_next]
    ELSE LET r == capitalize_text(text, 0, patterns[1], cap_next)
         IN  capitalize_patterns(r.text, Tail(patterns), r.cap_next)

\* capitalize, lines 175-191: the entries of one run
RECURSIVE capitalize_run(_, _, _, _, _)
capitalize_run(proj, doc, patterns, indexes, cap_next) ==
    IF indexes = << >> THEN << >>
    ELSE LET index == indexes[1]
             text  == get_text(proj.subtitles[index + 1], doc)
             first == IF cap_next \/ index = 0
                      THEN capitalize_position(text, 0).text ELSE text
             r     == capitalize_patterns(first, get_subtitutions(patterns),
                          IF cap_next \/ index = 0 THEN FALSE ELSE cap_next)
         IN  <<[index |-> index, text |-> r.text]>>
                 \o capitalize_run(proj, doc, patterns, Tail(indexes), r.cap_next)

\* capitalize, lines 173-174: every run starts with cap_next = False
RECURSIVE capitalize_ranges(_, _, _, _)
capitalize_ranges(proj, doc, patterns, ranges) ==
    IF ranges = << >> THEN << >>
    ELSE capitalize_run(proj, doc, patterns, ranges[1], FALSE)
             \o capitalize_ranges(proj, doc, patterns, Tail(ranges))


\* commit_texts without its assertion: the replacement is committed even
\* when no entry changed
commit_texts_unasserted(proj, doc, entries, description) ==
    LET new == changed(proj, doc, entries)
    IN  Result("Done",
            set_action_description(
                replace_texts(proj, indexes_of(new), doc, texts_of(new), DO),
                DO, description),
            indexes_of(new), texts_of(new), << >>)

\* the single commit that ends capitalize, correct_common_errors and
\* break_lines: assert new_indexes, replace_texts, set_action_description
commit_texts(proj, doc, entries, description) ==
    LET new == changed(proj, doc, entries)
    IN  IF new = << >>
        THEN Result("NoChange", proj, << >>, << >>, << >>)
        ELSE Result("Done",
                 set_action_description(
                     replace_texts(proj, indexes_of(new), doc, texts_of(new), DO),
                     DO, description),
                 indexes_of(new), texts_of(new), << >>)

\* TextAgent.capitalize(indexes, doc, patterns)
capitalize(proj, mfile, tfile, indexes, doc, patterns) ==
    LET all == indexes_or_all(proj, indexes)
    IN  IF ~require(proj, indexes) THEN Raised("InvalidIndex", proj)
        ELSE IF get_markup_tag_regex(mfile, tfile, doc) = "ValueError"
        THEN Raised("InvalidDocument", proj)
        ELSE IF all # << >> /\ bad_pattern(patterns)
        THEN Raised("BadPattern", proj)
        ELSE commit_texts(proj, doc,
                 capitalize_ranges(proj, doc, patterns, get_ranges(all)),
                 "Capitalizing texts")

\* correct_common_errors, lines 222-223: replace_all again while the
\* pattern's repeat flag is set and the last pass substituted
RECURSIVE replace_while(_, _, _)
replace_while(text, source, replacement) ==
    LET r == replace_all(text, source, replacement)
    IN  IF r.count = 0 THEN r.text
        ELSE replace_while(r.text, source, replacement)

\* correct_common_errors, lines 218-223: re_patterns holds the enabled
\* patterns, repeats the Repeat field of every pattern of the table; i
\* counts the enabled patterns done so far
RECURSIVE correct_text(_, _, _, _)
correct_text(text, re_patterns, repeats, i) ==
    IF i >= Len(re_patterns) THEN text
    ELSE LET pattern == re_patterns[i + 1]
             r == replace_all(text, pattern.Pattern, pattern.Replacement)
             t == IF repeats[i + 1] /\ r.count # 0
                  THEN replace_while(r.text, pattern.Pattern,
                                     pattern.Replacement)
                  ELSE r.text
         IN  correct_text(t, re_patterns, repeats, i + 1)


\* correct_common_errors that looks an index up only when its turn comes
\* and replaces each entry's text as soon as it is computed
RECURSIVE correct_eagerly(_, _, _, _)
correct_eagerly(proj, indexes, doc, patterns) ==
    IF indexes = << >> THEN Result("Done", proj, << >>, << >>, << >>)
    ELSE IF indexes[1] >= Len(proj.subtitles) THEN Raised("InvalidIndex", proj)
    ELSE LET text == correct_text(get_text(proj.subtitles[indexes[1] + 1], doc),
                                  get_subtitutions(patterns),
                                  [k \in 1..Len(patterns) |-> patterns[k].Repeat],
                                  0)
             done == IF text = get_text(proj.subtitles[indexes[1] + 1], doc)
                     THEN proj
                     ELSE replace_texts(proj, <<indexes[1]>>, doc, <<text>>, DO)
         IN  correct_eagerly(done, Tail(indexes), doc, patterns)

correct_common_errors_eager(proj, mfile, tfile, indexes, doc, patterns) ==
    IF get_markup_tag_regex(mfile, tfile, doc) = "ValueError"
    THEN Raised("InvalidDocument", proj)
    ELSE IF bad_pattern(patterns) THEN Raised("BadPattern", proj)
    ELSE correct_eagerly(proj, indexes_or_all(proj, indexes), doc, patterns)

\* TextAgent.correct_common_errors(indexes, doc, patterns)
correct_common_errors(proj, mfile, tfile, indexes, doc, patterns) ==
    LET all         == indexes_or_all(proj, indexes)
        re_patterns == get_subtitutions(patterns)
        repeats     == [k \in 1..Len(patterns) |-> patterns[k].Repeat]
    IN  IF ~require(proj, indexes) THEN Raised("InvalidIndex", proj)
        ELSE IF get_markup_tag_regex(mfile, tfile, doc) = "ValueError"
        THEN Raised("InvalidDocument", proj)
        ELSE IF all # << >> /\ bad_pattern(patterns)
        THEN Raised("BadPattern", proj)
        ELSE commit_texts(proj, doc,
                 [k \in 1..Len(all) |->
                     [index |-> all[k],
                      text  |-> correct_text(
                                    get_text(proj.subtitles[all[k] + 1], doc),
                                    re_patterns, repeats, 0)]],
                 "Correcting common errors")

\* remove_hearing_impaired, lines 253-256: one replace_all per pattern
RECURSIVE replace_each(_, _)
replace_each(text, re_patterns) ==
    IF re_patterns = << >> THEN text
    ELSE replace_each(replace_all(text, re_patterns[1].Pattern,
                                  re_patterns[1].Replacement).text,
                      Tail(re_patterns))


\* empty_indexes appending the position i in new_texts where the code
\* appends new_indexes[i]
empty_indexes_by_position(new_indexes, new_texts) ==
    SelectSeq([k \in 1..Len(new_indexes) |-> k - 1],
              LAMBDA i : new_texts[i + 1] = << >>)

\* remove_hearing_impaired, lines 266-268: the indexes of the entries whose
\* cleaned text is empty
empty_indexes(new_indexes, new_texts) ==
    indexes_of(SelectSeq(
        [k \in 1..Len(new_indexes) |->
            [index |-> new_indexes[k], text |-> new_texts[k]]],
        LAMBDA e : e.text = << >>))


\* remove_emptied without the grouping: the removal stays an action of its
\* own
remove_emptied_ungrouped(replaced, remove_indexes, description) ==
    IF remove_indexes = << >> THEN replaced
    ELSE set_action_description(remove_subtitles(replaced, remove_indexes, DO),
                                DO, description)

\* remove_hearing_impaired, lines 269-271: assert remove_indexes, then
\* remove the subtitles and group the removal with the replacement
remove_emptied(replaced, remove_indexes, description) ==
    IF remove_indexes = << >> THEN replaced
    ELSE group_actions(remove_subtitles(replaced, remove_indexes, DO),
                       DO, 2, description)

\* TextAgent.remove_hearing_impaired(indexes, doc, patterns)
remove_hearing_impaired(proj, mfile, tfile, indexes, doc, patterns) ==
    LET all         == indexes_or_all(proj, indexes)
        re_patterns == get_subtitutions(patterns)
        new         == changed(proj, doc,
                           [k \in 1..Len(all) |->
                               [index |-> all[k],
                                text  |-> replace_each(
                                    get_text(proj.subtitles[all[k] + 1], doc),
                                    re_patterns)]])
        new_indexes == indexes_of(new)
        new_texts   == remove_leftover_spaces(texts_of(new))
        description == "Removing hearing impaired texts"
        replaced    == set_action_description(
                           replace_texts(proj, new_indexes, doc, new_texts, DO),
                           DO, description)
        remove_indexes == empty_indexes(new_indexes, new_texts)
    IN  IF ~require(proj, indexes) THEN Raised("InvalidIndex", proj)
        ELSE IF get_markup_tag_regex(mfile, tfile, doc) = "ValueError"
        THEN Raised("InvalidDocument", proj)
        ELSE IF all # << >> /\ bad_pattern(patterns)
        THEN Raised("BadPattern", proj)
        ELSE IF new_indexes = << >>
        THEN Result("NoChange", proj, << >>, << >>, << >>)
        ELSE Result("Done", remove_emptied(replaced, remove_indexes, description),
                    new_indexes, new_texts, remove_indexes)

\* sys.maxint, the default of max_skip_length and max_skip_lines
MaxInt == 2147483647


\* break_entry measuring the texts as they are, tags included
break_entry_with_tags(proj, doc, re_tag, index, liner_text, skip, max_skip_length, max_skip_lines) ==
    LET text         == get_text(proj.subtitles[index + 1], doc)
        length       == max_length_of(split_lines(text))
        line_count   == Len(split_lines(text))
        lines_after  == split_lines(liner_text)
        length_fixed == length > max_skip_length
                            /\ max_length_of(lines_after) < length
        lines_fixed  == line_count > max_skip_lines
                            /\ Len(lines_after) < line_count
    IN  IF length <= max_skip_length /\ line_count <= max_skip_lines /\ skip
        THEN << >>
        ELSE IF ~length_fixed /\ ~lines_fixed /\ skip
        THEN << >>
        ELSE <<[index |-> index, text |-> liner_text]>>

\* break_lines, lines 125-152, for one entry: liner_text is what
\* liner.break_lines() returns for it.  The result is the entry to hand to
\* the commit, or no entry when the loop continues past it.
break_entry(proj, doc, re_tag, index, liner_text, skip, max_skip_length, max_skip_lines) ==
    LET text          == get_text(proj.subtitles[index + 1], doc)
        tagless_text  == IF re_tag # "None" THEN tag_sub(text) ELSE text
        lines         == split_lines(tagless_text)
        length        == max_length_of(lines)
        line_count    == Len(lines)
        tagless_after == IF re_tag # "None" THEN tag_sub(liner_text)
                         ELSE tagless_text
        lines_after   == split_lines(tagless_after)
        length_down   == max_length_of(lines_after) < length
        lines_down    == Len(lines_after) < line_count
        length_fixed  == length > max_skip_length /\ length_down
        lines_fixed   == line_count > max_skip_lines /\ lines_down
    IN  IF length <= max_skip_length /\ line_count <= max_skip_lines /\ skip
        THEN << >>
        ELSE IF ~length_fixed /\ ~lines_fixed /\ skip
        THEN << >>
        ELSE <<[index |-> index, text |-> liner_text]>>

RECURSIVE break_entries(_, _, _, _, _, _, _, _)
break_entries(proj, doc, re_tag, indexes, liner_texts, skip, max_skip_length, max_skip_lines) ==
    IF indexes = << >> THEN << >>
    ELSE break_entry(proj, doc, re_tag, indexes[1],
                     liner_texts[indexes[1] + 1],
                     skip, max_skip_length, max_skip_lines)
         \o break_entries(proj, doc, re_tag, Tail(indexes), liner_texts,
                          skip, max_skip_length, max_skip_lines)

\* TextAgent.break_lines(indexes, doc, patterns, ..., skip, max_skip_length,
\* max_skip_lines).  length_func is len.  The patterns, max_length,
\* max_lines and max_deviation only configure the liner, whose answers are
\* the argument liner_texts, one text per subtitle.
break_lines(proj, mfile, tfile, indexes, doc, patterns, liner_texts, skip, max_skip_length, max_skip_lines) ==
    LET re_tag == get_markup_tag_regex(mfile, tfile, doc)
    IN  IF ~require(proj, indexes) THEN Raised("InvalidIndex", proj)
        ELSE IF bad_pattern(patterns) THEN Raised("BadPattern", proj)
        ELSE IF re_tag = "ValueError" THEN Raised("InvalidDocument", proj)
        ELSE commit_texts(proj, doc,
                 break_entries(proj, doc, re_tag, indexes_or_all(proj, indexes),
                               liner_texts, skip, max_skip_length,
                               max_skip_lines),
                 "Breaking lines")

\* What the liner may return for a text: the same characters, with each
\* whitespace character a space or a newline.
RECURSIVE Rebreaks(_)
Rebreaks(text) ==
    IF text = << >> THEN {<< >>}
    ELSE LET heads == IF IsSpace(text[1]) THEN {" ", "\n"} ELSE {text[1]}
         IN  {<<c>> \o t : c \in heads, t \in Rebreaks(Tail(text))}

(***************************************************************************)
(* The state machine.  Init is a project right after its files were        *)
(* opened: two subtitles, empty stacks, and the arguments the host will    *)
(* pass.  The inputs come in families, one per operation, of texts and     *)
(* pattern tables that make the operation's cases happen.                  *)
(***************************************************************************)
\* bound on the actions the undo stack may hold
MaxHistory == 1

Pat(source, replacement, cap, repeat, enabled) ==
    [Pattern |-> source, Replacement |-> replacement, Capitalize |-> cap,
     Repeat |-> repeat, enabled |-> enabled]

AfterDot == Pat(<<".">>, << >>, "After", FALSE, TRUE)

StartB == Pat(<<"b">>, << >>, "Start", FALSE, TRUE)

AfterB == Pat(<<"b">>, << >>, "After", FALSE, TRUE)

Halve == Pat(<<"a", "a">>, <<"a">>, "None", FALSE, TRUE)

HalveRepeat == Pat(<<"a", "a">>, <<"a">>, "None", TRUE, TRUE)

DropA == Pat(<<"a", "b">>, <<"b">>, "None", FALSE, TRUE)

Bracket == Pat(<<"[", "a", "]">>, << >>, "None", FALSE, TRUE)

Pad == Pat(<<"b">>, <<"b", " ">>, "None", FALSE, TRUE)

Unclosed == Pat(<<"(">>, << >>, "None", FALSE, TRUE)

Disabled(pattern) == [pattern EXCEPT !.enabled = FALSE]

CapFamily ==
    [texts  |-> {<<"a">>, <<" ", "a">>, <<".", ".", ".", "a">>,
                 <<"a", ".">>, <<"a", ".", " ", "b">>},
     probe  |-> <<"a", ".", " ", "b">>,
     tables |-> {<<AfterDot>>, <<StartB>>, <<AfterDot, StartB>>,
                 <<AfterB, AfterDot>>},
     breaks |-> {[skip |-> FALSE, max_skip_length |-> MaxInt,
                  max_skip_lines |-> MaxInt]}]

CorrectFamily ==
    [texts  |-> {<<"a", "a", "a">>, <<"a", "a", "a", "a">>, <<"a", "b">>,
                 <<"b">>},
     probe  |-> <<"a", "a", "a", "a">>,
     tables |-> {<<Halve>>, <<HalveRepeat>>, <<Halve, DropA>>,
                 <<Disabled(HalveRepeat), Halve>>},
     breaks |-> {[skip |-> FALSE, max_skip_length |-> MaxInt,
                  max_skip_lines |-> MaxInt]}]

HearingFamily ==
    [texts  |-> {<<"[", "a", "]">>, <<"[", "a", "]", " ", "b">>,
                 <<"-", " ", "[", "a", "]">>, << >>, <<"b">>},
     probe  |-> <<"[", "a", "]", " ", "b">>,
     tables |-> {<<Bracket>>, <<Bracket, Pad>>, <<Disabled(Unclosed), Bracket>>,
                 <<Unclosed, Bracket>>, <<Bracket, Unclosed>>},
     breaks |-> {[skip |-> FALSE, max_skip_length |-> MaxInt,
                  max_skip_lines |-> MaxInt]}]

BreakFamily ==
    [texts  |-> {<<"a", "a", " ", "b", "b">>, <<"a", "a", "\n", "b", "b">>,
                 <<"<", "b", ">", "a", " ", "b">>},
     probe  |-> <<"a", "a", " ", "b", "b">>,
     tables |-> {<<AfterDot>>},
     breaks |-> [skip : BOOLEAN, max_skip_length : {3, MaxInt},
                 max_skip_lines : {1, MaxInt}]]

Families == {CapFamily, CorrectFamily, HearingFamily, BreakFamily}

\* the index sets passed: none (all subtitles), one subtitle, and a set
\* whose second index is past the end
IndexChoices == {<< >>, <<1>>, <<0, 2>>}

\* the same without the single subtitle, which only the runs of capitalize
\* tell from all subtitles
AllOrPastEnd == {<< >>, <<0, 2>>}

\* the documents and files get_format tells apart: the main document with
\* and without a main file, the translation with its own file, with the
\* main file only and with no file, and a document that is neither
DocChoices ==
    {[doc |-> MAIN, main_file |-> "None", tran_file |-> "None"],
     [doc |-> MAIN, main_file |-> "subrip", tran_file |-> "None"],
     [doc |-> TRAN, main_file |-> "None", tran_file |-> "subrip"],
     [doc |-> TRAN, main_file |-> "subrip", tran_file |-> "None"],
     [doc |-> TRAN, main_file |-> "None", tran_file |-> "None"],
     [doc |-> "BOGUS", main_file |-> "subrip", tran_file |-> "subrip"]}

\* the text every subtitle holds in the document not worked on
OtherText == <<"a", " ", "a">>

Subtitle(doc, text) ==
    IF doc = TRAN THEN [main_text |-> OtherText, tran_text |-> text]
                  ELSE [main_text |-> text, tran_text |-> OtherText]

NoLast(proj) ==
    [op |-> "none", outcome |-> "none", before |-> proj,
     new_indexes |-> << >>, new_texts |-> << >>, remove_indexes |-> << >>,
     liner_texts |-> << >>]

InitWith(fam, texts, doc, mfile, tfile, choices) ==
    /\ subtitles = [k \in 1..Len(texts) |-> Subtitle(doc, texts[k])]
    /\ main_file = mfile
    /\ tran_file = tfile
    /\ undoables = << >>
    /\ redoables = << >>
    /\ \E indexes \in choices, patterns \in fam.tables, b \in fam.breaks :
          args = [indexes |-> indexes, doc |-> doc, patterns |-> patterns,
                  skip |-> b.skip, max_skip_length |-> b.max_skip_length,
                  max_skip_lines |-> b.max_skip_lines]
    /\ last = NoLast(Project(subtitles, << >>, << >>))

\* every pair of texts of a family, worked on as the main document of a
\* file with markup
InitTexts ==
    \E fam \in Families : \E texts \in fam.texts \X fam.texts :
        InitWith(fam, texts, MAIN, "subrip", "None",
                 IF fam = CapFamily THEN IndexChoices ELSE AllOrPastEnd)

\* every choice of document and files, for the probe text of each family
InitDocs ==
    \E fam \in Families, d \in DocChoices :
        InitWith(fam, <<fam.probe, fam.probe>>, d.doc, d.main_file, d.tran_file,
                 AllOrPastEnd)

Init == InitTexts \/ InitDocs

proj == Project(subtitles, undoables, redoables)

\* all the lists of liner answers, one answer per subtitle: the liner is
\* asked for the subtitles the call processes, and the list holds the stored
\* text for the others
RECURSIVE LinerTexts(_, _, _)
LinerTexts(subs, doc, asked) ==
    IF subs = << >> THEN {<< >>}
    ELSE LET text  == get_text(subs[Len(subs)], doc)
             texts == IF Len(subs) - 1 \in asked THEN Rebreaks(text) ELSE {text}
         IN  {Append(rest, t) : t \in texts,
                  rest \in LinerTexts(SubSeq(subs, 1, Len(subs) - 1), doc, asked)}

\* the subtitles break_lines asks the liner about: none when the call
\* raises before its loop
Asked ==
    IF require(proj, args.indexes)
           /\ get_markup_tag_regex(main_file, tran_file, args.doc) # "ValueError"
    THEN Range(indexes_or_all(proj, args.indexes)) ELSE {}

\* the call returned r: the project it left and what it did
Returned(op, r, liner_texts) ==
    /\ r.outcome = "Done" => Len(undoables) < MaxHistory
    /\ subtitles' = r.project.subtitles
    /\ undoables' = r.project.undoables
    /\ redoables' = r.project.redoables
    /\ last' = [op |-> op, outcome |-> r.outcome, before |-> proj,
                new_indexes |-> r.new_indexes, new_texts |-> r.new_texts,
                remove_indexes |-> r.remove_indexes,
                liner_texts |-> liner_texts]
    /\ UNCHANGED <<main_file, tran_file, args>>

Capitalize ==
    \E r \in {capitalize(proj, main_file, tran_file, args.indexes, args.doc,
                         args.patterns)} :
        Returned("capitalize", r, << >>)

CorrectCommonErrors ==
    \E r \in {correct_common_errors(proj, main_file, tran_file, args.indexes,
                                    args.doc, args.patterns)} :
        Returned("correct_common_errors", r, << >>)

RemoveHearingImpaired ==
    \E r \in {remove_hearing_impaired(proj, main_file, tran_file, args.indexes,
                                      args.doc, args.patterns)} :
        Returned("remove_hearing_impaired", r, << >>)

BreakLines ==
    \E liner_texts \in LinerTexts(subtitles, args.doc, Asked) :
        Returned("break_lines",
                 break_lines(proj, main_file, tran_file, args.indexes, args.doc,
                             args.patterns, liner_texts, args.skip,
                             args.max_skip_length, args.max_skip_lines),
                 liner_texts)

\* undo and redo return a project and an outcome only
Reverted(r, done) ==
    [project |-> r.project,
     outcome |-> IF r.outcome = "Done" THEN done ELSE r.outcome,
     new_indexes |-> << >>, new_texts |-> << >>, remove_indexes |-> << >>]

Undo ==
    \E r \in {Reverted(undo(proj), "Undone")} : Returned("undo", r, << >>)

Redo ==
    \E r \in {Reverted(redo(proj), "Redone")} : Returned("redo", r, << >>)

Next ==
    \/ Capitalize
    \/ CorrectCommonErrors
    \/ RemoveHearingImpaired
    \/ BreakLines
    \/ Undo
    \/ Redo

Spec == Init /\ [][Next]_vars

(***************************************************************************)
(* Properties.                                                             *)
(***************************************************************************)
BatchOps == {"capitalize", "correct_common_errors", "remove_hearing_impaired",
             "break_lines"}

\* the last operation was a batch operation that returned without raising
BatchReturned == last.op \in BatchOps /\ last.outcome \in {"Done", "NoChange"}

\* the project is as it was before the last operation
Untouched ==
    /\ subtitles = last.before.subtitles
    /\ undoables = last.before.undoables
    /\ redoables = last.before.redoables

\* the text subtitle index had in the document worked on, before the last
\* operation
TextBefore(index) == get_text(last.before.subtitles[index + 1], args.doc)

\* the indexes the last operation processed
Processed == Range(indexes_or_all(last.before, args.indexes))

\* C1: a batch operation that returns with no entry whose computed text
\* differs from the stored one ends with NoChange, and the subtitles, the
\* undo stack and the redo stack are as before the call.
C1_NoChangeLeavesProject ==
    (BatchReturned /\ last.new_indexes = << >>)
        => (last.outcome = "NoChange" /\ Untouched)

\* C1 happens: break_lines ended with NoChange on a project that has history
C1_Witness ==
    /\ last.op = "break_lines"
    /\ last.outcome = "NoChange"
    /\ last.before.redoables # << >>
    /\ \E k \in 1..Len(subtitles) :
          last.liner_texts[k] # get_text(subtitles[k], args.doc)

\* C2: a batch operation that changed an entry added exactly one action to
\* the undo stack, and one undo() right after it gives back the subtitles
\* of before the operation.
C2_OneActionUndone ==
    (last.op \in BatchOps /\ last.outcome = "Done")
        => /\ undoables = Append(last.before.undoables,
                                 undoables[Len(undoables)])
           /\ undo(proj).outcome = "Done"
           /\ undo(proj).project.subtitles = last.before.subtitles
           /\ undo(proj).project.undoables = last.before.undoables

\* C2 happens: remove_hearing_impaired replaced texts and removed an entry,
\* both in one action
C2_Witness ==
    /\ last.op = "remove_hearing_impaired"
    /\ last.outcome = "Done"
    /\ last.remove_indexes # << >>
    /\ Len(last.new_indexes) > Len(last.remove_indexes)
    /\ Len(undoables[Len(undoables)].steps) = 2

\* C3: after a committed Do action the redo stack is empty, whatever it
\* held before, so the next redo() fails with NothingToRedo; and a redo()
\* that fails so leaves the subtitles and the undo stack alone.
C3_DoDiscardsRedo ==
    /\ (last.op \in BatchOps /\ last.outcome = "Done")
           => /\ redoables = << >>
              /\ redo(proj).outcome = "NothingToRedo"
              /\ redo(proj).project = proj
    /\ (last.op = "redo" /\ last.before.redoables = << >>)
           => (last.outcome = "NothingToRedo" /\ Untouched)

\* C3 happens: a Do action was committed after an undo()
C3_Witness ==
    /\ last.op \in BatchOps
    /\ last.outcome = "Done"
    /\ last.before.redoables # << >>
    /\ last.before.undoables = << >>

\* C4: a batch operation that raised InvalidDocument, InvalidIndex or
\* BadPattern left every text, the number of subtitles and both stacks as
\* they were.
C4_FailureLeavesProject ==
    (last.op \in BatchOps
        /\ last.outcome \in {"InvalidDocument", "InvalidIndex", "BadPattern"})
        => Untouched

\* C4 happens: the index past the end comes second, after an entry whose
\* text the operation would change
C4_Witness ==
    /\ last.op = "correct_common_errors"
    /\ last.outcome = "InvalidIndex"
    /\ args.indexes = <<0, 2>>
    /\ correct_common_errors(proj, main_file, tran_file, <<0>>, args.doc,
                             args.patterns).outcome = "Done"

\* C5: after a successful remove_hearing_impaired the removed entries are
\* exactly the processed entries whose text the pattern pass changed and
\* whose cleaned text is empty; every other entry is kept, in order, an
\* entry that was already empty and unchanged included.
C5_CascadingRemoval ==
    (last.op = "remove_hearing_impaired" /\ last.outcome = "Done") =>
        LET before   == last.before.subtitles
            pass(i)  == replace_each(TextBefore(i),
                                     get_subtitutions(args.patterns))
            hit(i)   == i \in Processed /\ pass(i) # TextBefore(i)
            clean(i) == remove_leftover_spaces_1(pass(i))
            gone     == {i \in 0..(Len(before) - 1) :
                            hit(i) /\ clean(i) = << >>}
            kept     == sorted((0..(Len(before) - 1)) \ gone)
        IN  /\ Range(last.remove_indexes) = gone
            /\ Len(subtitles) = Len(kept)
            /\ \A k \in 1..Len(kept) :
                  subtitles[k] =
                      IF hit(kept[k])
                      THEN set_text(before[kept[k] + 1], args.doc,
                                    clean(kept[k]))
                      ELSE before[kept[k] + 1]

\* C5 happens: the second entry was emptied and removed while the first,
\* processed too and empty from the start, stays
C5_Witness ==
    /\ last.op = "remove_hearing_impaired"
    /\ last.outcome = "Done"
    /\ args.indexes = << >>
    /\ last.remove_indexes = <<1>>
    /\ Len(subtitles) = 1
    /\ get_text(subtitles[1], args.doc) = << >>

\* the text subtitle index holds now in the document worked on
TextNow(index) == get_text(subtitles[index + 1], args.doc)

AllRepeatFalse(patterns) == \A k \in 1..Len(patterns) : ~patterns[k].Repeat

\* correct_common_errors run once more, with the same arguments
SecondCorrection ==
    correct_common_errors(proj, main_file, tran_file, args.indexes, args.doc,
                          args.patterns)

\* no enabled pattern matches anywhere in the processed entries
NoMatchLeft ==
    \A i \in Processed : \A k \in 1..Len(args.patterns) :
        args.patterns[k].enabled
            => ~parser_next(TextNow(i), args.patterns[k].Pattern, 0).found

\* C6 as stated: with every pattern's repeat flag off, a second
\* correct_common_errors on the same index set and document ends with
\* NoChange.
C6_SecondRunNoChange ==
    (last.op = "correct_common_errors" /\ BatchReturned
        /\ AllRepeatFalse(args.patterns))
        => SecondCorrection.outcome = "NoChange"

\* C6 amended: with every pattern's repeat flag off, a second
\* correct_common_errors on the same index set and document ends with
\* NoChange provided the first run left no match of an enabled pattern in
\* the processed entries.
C6_SecondRunNoChangeAtFixpoint ==
    (last.op = "correct_common_errors" /\ BatchReturned
        /\ AllRepeatFalse(args.patterns) /\ NoMatchLeft)
        => SecondCorrection.outcome = "NoChange"

\* C6 happens: a first run changed texts and left no match
C6_Witness ==
    /\ last.op = "correct_common_errors"
    /\ last.outcome = "Done"
    /\ Len(last.new_indexes) = 2
    /\ AllRepeatFalse(args.patterns)
    /\ NoMatchLeft

\* C7: capitalize upper-cases no character that the three characters
\* "..." precede in the entry's text.
C7_EllipsisGuard ==
    (last.op = "capitalize" /\ last.outcome = "Done") =>
        \A k \in 1..Len(last.new_indexes) :
            LET old == TextBefore(last.new_indexes[k])
                new == last.new_texts[k]
            IN  \A j \in 1..Len(new) :
                    new[j] # old[j]
                        => ~(j > 3 /\ SubSeq(old, j - 3, j - 1) = Ellipsis)

\* the enabled patterns are one pattern, of mode After
SoleAfter(patterns) ==
    /\ Len(get_subtitutions(patterns)) = 1
    /\ get_subtitutions(patterns)[1].Capitalize = "After"

\* C8: in a run of two entries where the sole After pattern matches the
\* first entry once, ending at the end of its text, and does not match the
\* second, the second entry's first word character is upper-cased unless
\* "..." guards it.
C8_CarryOver ==
    (last.op = "capitalize" /\ BatchReturned
        /\ Len(last.before.subtitles) = 2 /\ args.indexes = << >>
        /\ SoleAfter(args.patterns))
        => LET source == get_subtitutions(args.patterns)[1].Pattern
               first  == parser_next(TextBefore(0), source, 0)
               k      == FirstWord(TextBefore(1))
           IN  (/\ first.found
                /\ first.z = Len(TextBefore(0))
                /\ ~parser_next(TextBefore(1), source, 0).found
                /\ k >= 0
                /\ ~(k >= 3 /\ Slice(TextBefore(1), k - 3, k) = Ellipsis))
                   => TextNow(1)[k + 1] = CapitalizeChar(TextBefore(1)[k + 1])

\* the length and the line count break_lines measures: those of the text
\* with the tags of the document's format, if it has one, stripped
Tagless(text) ==
    IF get_markup_tag_regex(main_file, tran_file, args.doc) = "None"
    THEN text ELSE tag_sub(text)

MeasuredLength(text) == max_length_of(split_lines(Tagless(text)))

MeasuredLines(text) == Len(split_lines(Tagless(text)))

WithinSkip(text) ==
    /\ MeasuredLength(text) <= args.max_skip_length
    /\ MeasuredLines(text) <= args.max_skip_lines

\* C9: break_lines with skip set leaves alone, and out of the committed
\* replacement, every entry whose tag-stripped length and line count are
\* within max_skip_length and max_skip_lines, whatever the liner returned.
C9_SkipWithinLimits ==
    (last.op = "break_lines" /\ BatchReturned /\ args.skip) =>
        \A i \in 0..(Len(last.before.subtitles) - 1) :
            WithinSkip(TextBefore(i))
                => /\ i \notin Range(last.new_indexes)
                   /\ subtitles[i + 1] = last.before.subtitles[i + 1]

\* C9 happens: a replacement was committed while the liner had another
\* text for a processed entry within the limits
C9_Witness ==
    /\ last.op = "break_lines"
    /\ last.outcome = "Done"
    /\ args.skip
    /\ \E i \in Processed :
          /\ WithinSkip(TextBefore(i))
          /\ last.liner_texts[i + 1] # TextBefore(i)

\* C10: break_lines with skip set commits the liner's text for every
\* processed entry that is over max_skip_length (or max_skip_lines) and for
\* which the liner's text, measured anew, is strictly shorter (has strictly
\* fewer lines) and differs from the stored text.
C10_ImprovementCommitted ==
    (last.op = "break_lines" /\ BatchReturned /\ args.skip) =>
        \A i \in Processed :
            LET text  == TextBefore(i)
                liner == last.liner_texts[i + 1]
            IN  (/\ liner # text
                 /\ \/ /\ MeasuredLength(text) > args.max_skip_length
                       /\ MeasuredLength(liner) < MeasuredLength(text)
                    \/ /\ MeasuredLines(text) > args.max_skip_lines
                       /\ MeasuredLines(liner) < MeasuredLines(text))
                    => /\ i \in Range(last.new_indexes)
                       /\ TextNow(i) = liner

\* the Repeat flag of each enabled pattern, in the order of the enabled
\* patterns
OwnRepeats(patterns) ==
    [k \in 1..Len(get_subtitutions(patterns)) |->
        get_subtitutions(patterns)[k].Repeat]

\* C12: correct_common_errors leaves in every processed entry the text that
\* results from passing each enabled pattern once and passing it again,
\* while the last pass substituted, if and only if that pattern's own
\* Repeat flag is set; also when disabled patterns precede enabled ones.
C12_OwnRepeatFlag ==
    (last.op = "correct_common_errors" /\ BatchReturned) =>
        \A i \in Processed :
            TextNow(i) = correct_text(TextBefore(i),
                                      get_subtitutions(args.patterns),
                                      OwnRepeats(args.patterns), 0)

\* the first entries of the runs the last capitalize worked on
RunStarts ==
    LET ranges == get_ranges(indexes_or_all(last.before, args.indexes))
    IN  {ranges[k][1] : k \in 1..Len(ranges)}

\* the word character FirstWord finds in text from pos is not preceded by
\* "..."
Unguarded(text, k) == ~(k >= 3 /\ Slice(text, k - 3, k) = Ellipsis)

\* C13: capitalize upper-cases the first eligible character of the first
\* entry of every run, whether the run starts at index 0 or not.
C13_RunStartCapitalized ==
    (last.op = "capitalize" /\ BatchReturned) =>
        \A i \in RunStarts :
            LET k == FirstWord(TextBefore(i))
            IN  (k >= 0 /\ Unguarded(TextBefore(i), k))
                    => TextNow(i)[k + 1] = CapitalizeChar(TextBefore(i)[k + 1])

\* the ends z of the matches Parser.next() finds in text one after another,
\* the cursor starting at pos
RECURSIVE MatchEnds(_, _, _)
MatchEnds(text, source, pos) ==
    LET m == parser_next(text, source, pos)
    IN  IF ~m.found THEN {}
        ELSE {m.z} \cup MatchEnds(text, source, m.z)

\* text now holds, upper-cased, the first word character old has at or
\* after pos, and the non-word characters between pos and it as they were
FirstWordCapitalized(old, now, pos) ==
    LET k == FirstWord(SliceFrom(old, pos))
    IN  (k >= 0 /\ Unguarded(old, pos + k))
            => /\ now[pos + k + 1] = CapitalizeChar(old[pos + k + 1])
               /\ \A j \in (pos + 1)..(pos + k) : now[j] = old[j]

\* C14: where capitalize capitalizes from a position, the start of
\* subtitle 0 or the end of a match of the sole After pattern, it upper-cases
\* the first word character at or after that position and skips the non-word
\* characters before it.
C14_FirstWordFromPosition ==
    (last.op = "capitalize" /\ BatchReturned) =>
        /\ 0 \in Processed
              => FirstWordCapitalized(TextBefore(0), TextNow(0), 0)
        /\ SoleAfter(args.patterns)
              => \A i \in Processed :
                     \A z \in MatchEnds(TextBefore(i),
                                  get_subtitutions(args.patterns)[1].Pattern, 0) :
                         FirstWordCapitalized(TextBefore(i), TextNow(i), z)

\* the last batch operation called again on the project it found, with
\* another pattern table and, for break_lines, the same answers of the liner
CalledWith(patterns) ==
    CASE last.op = "capitalize" ->
             capitalize(last.before, main_file, tran_file, args.indexes,
                        args.doc, patterns)
      [] last.op = "correct_common_errors" ->
             correct_common_errors(last.before, main_file, tran_file,
                                   args.indexes, args.doc, patterns)
      [] last.op = "remove_hearing_impaired" ->
             remove_hearing_impaired(last.before, main_file, tran_file,
                                     args.indexes, args.doc, patterns)
      [] last.op = "break_lines" ->
             break_lines(last.before, main_file, tran_file, args.indexes,
                         args.doc, patterns, last.liner_texts, args.skip,
                         args.max_skip_length, args.max_skip_lines)

\* C15: each batch operation gives, with a pattern table, the outcome, the
\* replaced texts, the removed entries and the project it gives with the
\* table from which the disabled patterns were deleted; so a disabled pattern
\* whose source does not compile never raises BadPattern.
C15_DisabledNoEffect ==
    last.op \in BatchOps =>
        LET r == CalledWith(SelectSeq(args.patterns, LAMBDA x : x.enabled))
        IN  /\ r.outcome = last.outcome
            /\ r.new_indexes = last.new_indexes
            /\ r.new_texts = last.new_texts
            /\ r.remove_indexes = last.remove_indexes
            /\ r.project.subtitles = subtitles

\* the pairs of entries i, i + 1 that one run of the last capitalize holds
RunPairs ==
    LET ranges == get_ranges(indexes_or_all(last.before, args.indexes))
    IN  {i \in Processed :
            \E k \in 1..Len(ranges) : \E j \in 1..(Len(ranges[k]) - 1) :
                ranges[k][j] = i /\ ranges[k][j + 1] = i + 1}

\* a match of an enabled After pattern in text is followed by no word
\* character at all, so by no eligible character
PendingAfter(text, patterns) ==
    \E p \in 1..Len(get_subtitutions(patterns)) :
        /\ get_subtitutions(patterns)[p].Capitalize = "After"
        /\ \E z \in MatchEnds(text, get_subtitutions(patterns)[p].Pattern, 0) :
              FirstWord(SliceFrom(text, z)) < 0

\* C16: when a match of an After pattern in entry i has no word character
\* after it, capitalize applies the start-of-entry capitalization
\* to entry i + 1 of the same run, whatever the patterns applied later to
\* entry i match.
C16_PendingCarried ==
    (last.op = "capitalize" /\ BatchReturned) =>
        \A i \in RunPairs :
            PendingAfter(TextBefore(i), args.patterns)
                => LET start == capitalize_position(TextBefore(i + 1), 0)
                   IN  start.found => TextNow(i + 1)[1] = start.text[1]

\* C17: in every replacement a batch operation commits, the new text of
\* each replaced entry, the one handed to replace_texts, differs from the
\* text the entry had before the operation.
C17_ReplacementDiffers ==
    (last.op \in BatchOps /\ last.outcome = "Done") =>
        \A k \in 1..Len(last.new_indexes) :
            last.new_texts[k] # TextBefore(last.new_indexes[k])
====
